---- MODULE Spec2Model ----
(***************************************************************************)
(* A model of the cn-oam catalog engine: the browser-side catalog module   *)
(* (lazy DuckDB-WASM initialisation and searchCatalog), the App component  *)
(* that issues viewport searches, the map and the upload dialog, the       *)
(* ingestion pipeline and the catalog compactor.  Each subsystem has its   *)
(* own specification over the shared variables; the variables of the other *)
(* subsystems stay parked.                                                 *)
(***************************************************************************)
EXTENDS Integers, Sequences, FiniteSets, TLC

VARIABLES
    \* lib/catalog.js module state
    db,             \* 0 (null) or the attempt that created the AsyncDuckDB
    conn,           \* 0 (null) or the attempt that opened the connection
    initPromise,    \* 0 (null) or the attempt the memoised promise belongs to
    attempts,       \* the async bodies started by initCatalog, in order
    workers,        \* number of Worker objects constructed
    callers,        \* the calls made into the catalog module
    \* one searchCatalog call against the catalog file
    catalogFile,    \* the rows of catalog.parquet
    searchArgs,     \* the argument object of the call
    searchResult,   \* the array the call returned
    searchPc,       \* "idle" before the call, "returned" after it
    rowGroups,      \* the row groups (blocks) catalog.parquet is laid out in
    fetched,        \* the row groups whose rows the call's query read
    \* App.jsx component state
    appInit,        \* the initCatalog().then(...).then(...) chain of the mount effect
    catalogReady,
    viewportBbox,   \* <<>> is null
    filters,
    features,
    isSearching,
    searchDebounce, \* the pending debounce timer with the values its closure holds
    inflight,       \* the searchCatalog calls started by runSearch and not yet settled
    latest,         \* the most recently started searchCatalog call and its outcome
    uploadClosure,  \* the onUploadComplete closure a running upload holds
    \* the catalog store and its compactor
    snapshot,       \* the rows of the published catalog.parquet
    pending,        \* the sidecars in catalog/pending/, one per id-keyed path
    runs,           \* the invocations of the catalog rebuild job
    outcomes,       \* how each invocation's last run ended
    registered,     \* per id, the uploaded_at of the sidecar registered last (0: none)
    nRegistered,    \* number of registrations so far
    \* the ingestion pipeline
    input,          \* per upload id, what the uploaded file is like
    invocations,    \* the executions of the processing state machine
    status,         \* uploads/{id}/status.json, per upload id
    assets,         \* the imagery and thumbnail objects written
    \* UploadModal.jsx component state
    modalStatus,    \* the status state: idle, requesting, uploading, processing, complete, error
    processingStep, \* "null" or the step key last read from status.json
    error,          \* the error message shown ("" when none)
    pollCount,      \* the counter of the running pollStatus call
    pollRef,        \* TRUE while the interval of pollRef.current is set
    fetches,        \* the status fetches under way, oldest first, with what each will return
    \* queries reading catalog.parquet over HTTP
    readers,        \* per query: the footer it read, the row groups left to fetch, the rows it got
    \* UploadModal.jsx: handleUpload, resetForm and the intervals of pollStatus
    handlers,       \* per upload, how far its handleUpload call has got
    intervals,      \* the uploads whose setInterval of pollStatus is still set
    pollTimer,      \* pollRef.current: 0 (null) or the upload whose interval it was set to
    pollCounts,     \* per upload, the pollCount of its pollStatus call
    statusFetches,  \* the status fetches under way, oldest first
    completions,    \* per upload, how many times onUploadComplete was called for it
    \* Map.jsx: the moveend handler and the effects that call fitBounds
    isProgrammaticMove, \* isProgrammaticMove.current
    debounceTimer,  \* TRUE while the timer of debounceTimer.current is pending
    moving,         \* the map move under way: "none", "user" or "programmatic"
    mapView,        \* the view (bounds) the map shows
    nMoves,         \* number of moves started so far
    searchAreas     \* the bounds passed to onSearchArea, in call order

catVars == <<db, conn, initPromise, attempts, workers, callers>>

searchVars == <<catalogFile, searchArgs, searchResult, searchPc, rowGroups, fetched>>

appVars == <<appInit, catalogReady, viewportBbox, filters, features, isSearching,
             searchDebounce, inflight, latest, uploadClosure>>

compVars == <<snapshot, pending, runs, outcomes, registered, nRegistered>>

pipeVars == <<input, invocations, status, assets>>

modalVars == <<modalStatus, processingStep, error, pollCount, pollRef, fetches>>

readVars == <<readers>>

uploadVars == <<handlers, intervals, pollTimer, pollCounts, statusFetches, completions>>

mapVars == <<isProgrammaticMove, debounceTimer, moving, mapView, nMoves, searchAreas>>

vars == <<catVars, searchVars, appVars, compVars, pipeVars, modalVars, readVars, uploadVars,
          mapVars>>

\* What the actions of one subsystem leave alone.
notCatVars == <<searchVars, appVars, compVars, pipeVars, modalVars, readVars, uploadVars, mapVars>>

notSearchVars == <<catVars, appVars, compVars, pipeVars, modalVars, readVars, uploadVars, mapVars>>

notAppVars == <<catVars, searchVars, compVars, pipeVars, modalVars, readVars, uploadVars, mapVars>>

notCompVars == <<catVars, searchVars, appVars, pipeVars, modalVars, readVars, uploadVars, mapVars>>

notPipeVars == <<catVars, searchVars, appVars, modalVars, readVars, uploadVars, mapVars>>

notModalVars == <<catVars, searchVars, appVars, compVars, pipeVars, readVars, uploadVars, mapVars>>

\* The parked state of the catalog module while another subsystem is explored.
CatOff ==
    /\ db = 0
    /\ conn = 0
    /\ initPromise = 0
    /\ attempts = <<>>
    /\ workers = 0
    /\ callers = <<>>

\* The parked state of the search call.
SearchOff ==
    /\ catalogFile = {}
    /\ searchArgs = <<>>
    /\ searchResult = <<>>
    /\ searchPc = "off"
    /\ rowGroups = {}
    /\ fetched = {}

\* The parked state of the App component.
AppOff ==
    /\ appInit = "off"
    /\ catalogReady = FALSE
    /\ viewportBbox = <<>>
    /\ filters = <<>>
    /\ features = <<>>
    /\ isSearching = FALSE
    /\ searchDebounce = <<>>
    /\ inflight = {}
    /\ latest = <<>>
    /\ uploadClosure = <<>>

\* The parked state of the catalog store and its compactor.
CompOff ==
    /\ snapshot = {}
    /\ pending = {}
    /\ runs = <<>>
    /\ outcomes = <<>>
    /\ registered = <<>>
    /\ nRegistered = 0

notReadVars == <<catVars, searchVars, appVars, pipeVars, modalVars, uploadVars, mapVars>>

\* No query is reading the catalog.
ReadOff == readers = <<>>

\* The parked state of the map component.
MapOff ==
    /\ isProgrammaticMove = FALSE
    /\ debounceTimer = FALSE
    /\ moving = "off"
    /\ mapView = 0
    /\ nMoves = 0
    /\ searchAreas = <<>>

\* The parked state of the upload dialog's handlers.
UploadOff ==
    /\ handlers = <<>>
    /\ intervals = {}
    /\ pollTimer = 0
    /\ pollCounts = <<>>
    /\ statusFetches = <<>>
    /\ completions = <<>>

\* The parked state of the upload dialog.
ModalOff ==
    /\ modalStatus = "off"
    /\ processingStep = "null"
    /\ error = ""
    /\ pollCount = 0
    /\ pollRef = FALSE
    /\ fetches = <<>>

\* The parked state of the ingestion pipeline.
PipeOff ==
    /\ input = <<>>
    /\ invocations = <<>>
    /\ status = <<>>
    /\ assets = {}

(***************************************************************************)
(* lib/catalog.js: initCatalog and the entry of searchCatalog,             *)
(* getCatalogStats and getItem                                             *)
(***************************************************************************)

NumCallers == 3

Callers == 1..NumCallers

\* The exported functions a caller can enter the module through.
EntryPoints == {"initCatalog", "searchCatalog", "getCatalogStats", "getItem"}

\* The steps whose rejection rejects the init promise: the SET query is
\* wrapped in try/catch, the others are not.
FatalSteps == {"selectBundle", "instantiate", "connect"}

Settled(a) == attempts[a].pc \in {"resolved", "rejected"}

NoError == [att |-> 0, step |-> "none"]

NoCaller == [entry |-> "none", pc |-> "idle", att |-> 0, err |-> NoError]

CatInit ==
    /\ db = 0
    /\ conn = 0
    /\ initPromise = 0
    /\ attempts = <<>>
    /\ workers = 0
    /\ callers = [c \in Callers |-> NoCaller]

\* initCatalog's guard, had it tested the connection instead of the promise.
HasInitPromiseConn == conn # 0

\* initCatalog line 33: a memoised promise exists.
HasInitPromise == initPromise # 0

\* searchCatalog / getCatalogStats / getItem first line: if (!conn) await initCatalog()
NeedsInit(entry) == entry = "initCatalog" \/ conn = 0

\* A call enters the module.  The synchronous part of initCatalog runs to the
\* first await: it either returns the memoised promise or starts the async
\* body (which calls selectBundle and suspends) and memoises its promise.
Call(c, entry) ==
    /\ callers[c].pc = "idle"
    /\ IF NeedsInit(entry)
       THEN IF HasInitPromise
            THEN /\ callers' = [callers EXCEPT ![c] =
                        [entry |-> entry, pc |-> "awaitInit", att |-> initPromise, err |-> NoError]]
                 /\ UNCHANGED <<attempts, initPromise>>
            ELSE /\ attempts' = Append(attempts, [pc |-> "selectBundle", err |-> "none"])
                 /\ initPromise' = Len(attempts) + 1
                 /\ callers' = [callers EXCEPT ![c] =
                        [entry |-> entry, pc |-> "awaitInit", att |-> Len(attempts) + 1, err |-> NoError]]
       ELSE /\ callers' = [callers EXCEPT ![c] =
                        [entry |-> entry, pc |-> "connected", att |-> conn, err |-> NoError]]
            /\ UNCHANGED <<attempts, initPromise>>
    /\ UNCHANGED <<db, conn, workers, notCatVars>>

\* selectBundle resolves: new Worker, new AsyncDuckDB, then await instantiate.
BundleSelected(a) ==
    /\ attempts[a].pc = "selectBundle"
    /\ workers' = workers + 1
    /\ db' = a
    /\ attempts' = [attempts EXCEPT ![a].pc = "instantiate"]
    /\ UNCHANGED <<conn, initPromise, callers, notCatVars>>

\* db.instantiate resolves: await db.connect().
Instantiated(a) ==
    /\ attempts[a].pc = "instantiate"
    /\ attempts' = [attempts EXCEPT ![a].pc = "connect"]
    /\ UNCHANGED <<db, conn, initPromise, workers, callers, notCatVars>>

\* db.connect resolves: conn is assigned, then the SET query is awaited.
Connected(a) ==
    /\ attempts[a].pc = "connect"
    /\ conn' = a
    /\ attempts' = [attempts EXCEPT ![a].pc = "setCache"]
    /\ UNCHANGED <<db, initPromise, workers, callers, notCatVars>>

\* The SET query settles either way (its rejection is caught): the body
\* returns {db, conn} and the promise resolves.
CacheSet(a) ==
    /\ attempts[a].pc = "setCache"
    /\ attempts' = [attempts EXCEPT ![a].pc = "resolved"]
    /\ UNCHANGED <<db, conn, initPromise, workers, callers, notCatVars>>

\* An awaited step outside the try/catch rejects: the promise rejects with
\* that error; initPromise keeps the rejected promise.
StepRejects(a) ==
    /\ attempts[a].pc \in FatalSteps
    /\ attempts' = [attempts EXCEPT ![a] = [pc |-> "rejected", err |-> attempts[a].pc]]
    /\ UNCHANGED <<db, conn, initPromise, workers, callers, notCatVars>>

\* A caller suspended on the init promise resumes once it has settled.
Resume(c) ==
    /\ callers[c].pc = "awaitInit"
    /\ Settled(callers[c].att)
    /\ LET a == callers[c].att IN
       callers' = [callers EXCEPT ![c] =
           IF attempts[a].pc = "resolved"
           THEN [@ EXCEPT !.pc = "connected",
                          !.att = IF callers[c].entry = "initCatalog" THEN a ELSE conn]
           ELSE [@ EXCEPT !.pc = "rejected", !.err = [att |-> a, step |-> attempts[a].err]]]
    /\ UNCHANGED <<db, conn, initPromise, attempts, workers, notCatVars>>

CatNext ==
    \/ \E c \in Callers, e \in EntryPoints : Call(c, e)
    \/ \E a \in DOMAIN attempts :
          \/ BundleSelected(a)
          \/ Instantiated(a)
          \/ Connected(a)
          \/ CacheSet(a)
          \/ StepRejects(a)
    \/ \E c \in Callers : Resume(c)

InitOfSpecInit == CatInit /\ SearchOff /\ AppOff /\ CompOff /\ PipeOff /\ ModalOff /\ ReadOff /\ UploadOff /\ MapOff

SpecInit == InitOfSpecInit /\ [][CatNext]_vars

\* C1: concurrent calls made before setup completes share one initialisation
\* attempt: one async body is started and one Worker is constructed, every
\* caller that went through initCatalog is attached to that attempt, a caller
\* proceeds only on that attempt's connection, and when the attempt rejects
\* every caller fails with that attempt's error.
C1_SingleFlight ==
    /\ Len(attempts) <= 1
    /\ workers <= 1
    /\ \A c \in Callers :
          /\ callers[c].pc # "idle" => callers[c].att = 1
          /\ callers[c].pc = "connected" => attempts[1].pc # "rejected" /\ conn = 1
          /\ callers[c].pc = "rejected" =>
                attempts[1].pc = "rejected"
                /\ callers[c].err = [att |-> 1, step |-> attempts[1].err]
    /\ \A c1, c2 \in Callers :
          callers[c1].pc = "rejected" /\ callers[c2].pc = "rejected"
             => callers[c1].err = callers[c2].err

\* Two callers, one direct and one through searchCatalog, entered while the
\* attempt was still running, and both failed with its error while a third
\* is still suspended on the same promise.
C1_Witness ==
    \E c1, c2, c3 \in Callers :
        /\ callers[c1].entry = "initCatalog" /\ callers[c1].pc = "rejected"
        /\ callers[c2].entry = "searchCatalog" /\ callers[c2].pc = "rejected"
        /\ callers[c3].pc = "awaitInit"
        /\ callers[c1].err.step = "connect" /\ callers[c2].err.step = "connect"

\* C23: a caller of searchCatalog, getCatalogStats or getItem that has got
\* past its first line, and so issues its query on the shared connection,
\* does so only once the initialisation attempt that opened the connection
\* has resolved, never while that attempt is still at its SET query.
C23_QueryOnlyAfterInitResolved ==
    \A c \in Callers :
        (callers[c].pc = "connected" /\ callers[c].entry # "initCatalog") =>
            attempts[callers[c].att].pc = "resolved"

(***************************************************************************)
(* lib/catalog.js: searchCatalog                                           *)
(***************************************************************************)

\* Strings are sequences of characters; the empty sequence is '' (falsy) and
\* stands for a NULL column as well.
LowerChar(ch) ==
    CASE ch = "A" -> "a" [] ch = "B" -> "b" [] ch = "C" -> "c" [] ch = "D" -> "d"
      [] ch = "E" -> "e" [] ch = "N" -> "n" [] ch = "O" -> "o" [] ch = "R" -> "r"
      [] ch = "S" -> "s" [] ch = "T" -> "t" [] ch = "U" -> "u" [] ch = "V" -> "v"
      [] ch = "Y" -> "y" [] OTHER -> ch

\* String.prototype.toLowerCase and SQL LOWER
ToLowerCase(str) == [i \in DOMAIN str |-> LowerChar(str[i])]

\* SQL  str LIKE '%sub%'
Like(str, sub) ==
    \E i \in 0..(Len(str) - Len(sub)) : SubSeq(str, i + 1, i + Len(sub)) = sub

\* Timestamps are <<day, millisecond of the day>>.
TimeLeq(t1, t2) == t1[1] < t2[1] \/ (t1[1] = t2[1] /\ t1[2] <= t2[2])

\* A date string 'YYYY-MM-DD' is its day number, 0 being ''.  As the bound of
\* datetime >= ? it is cast to midnight of that day.
DateStartParam(dateStart) == <<dateStart, 0>>

\* dateEnd + 'T23:59:59.999Z'
DateEndParam(dateEnd) == <<dateEnd, 86399999>>

\* The parameters bound to  bbox.xmax >= ? AND bbox.xmin <= ? AND
\* bbox.ymax >= ? AND bbox.ymin <= ?  had they been pushed in bbox order.
SpatialParamsBboxOrder(bbox) == <<bbox[1], bbox[2], bbox[3], bbox[4]>>

\* params.push(west, east, south, north) with [west, south, east, north] = bbox
SpatialParams(bbox) == <<bbox[1], bbox[3], bbox[2], bbox[4]>>

SpatialCondition(row, bbox) ==
    LET p == SpatialParams(bbox) IN
    /\ row.bbox.xmax >= p[1]
    /\ row.bbox.xmin <= p[2]
    /\ row.bbox.ymax >= p[3]
    /\ row.bbox.ymin <= p[4]

UAV == <<"u", "a", "v">>

DRONE == <<"d", "r", "o", "n", "e">>

\* The platform condition, had the alias test ignored case.
PlatformConditionAliasAnyCase(row, platform) ==
    IF ToLowerCase(platform) = UAV
    THEN ToLowerCase(row.platform_type) = UAV \/ ToLowerCase(row.platform_type) = DRONE
    ELSE ToLowerCase(row.platform_type) = ToLowerCase(platform)

\* if (platform === 'uav') the alias condition, else LOWER(platform_type) = ?
PlatformCondition(row, platform) ==
    IF platform = UAV
    THEN ToLowerCase(row.platform_type) = UAV \/ ToLowerCase(row.platform_type) = DRONE
    ELSE ToLowerCase(row.platform_type) = ToLowerCase(platform)

LicenseCondition(row, license) == Like(ToLowerCase(row.license), ToLowerCase(license))

\* gsd 0 stands for NULL, which no comparison accepts.
GsdCondition(row, maxGsd) == row.gsd # 0 /\ row.gsd <= maxGsd

QueryCondition(row, query) == Like(ToLowerCase(row.title), ToLowerCase(query))

\* The WHERE clause: the conjunction of the conditions of the supplied
\* (truthy) parameters.  A bbox of <<>> is null.
Where(row, q) ==
    /\ q.bbox # <<>> => SpatialCondition(row, q.bbox)
    /\ q.dateStart # 0 => TimeLeq(DateStartParam(q.dateStart), row.datetime)
    /\ q.dateEnd # 0 => TimeLeq(row.datetime, DateEndParam(q.dateEnd))
    /\ q.platform # <<>> => PlatformCondition(row, q.platform)
    /\ q.license # <<>> => LicenseCondition(row, q.license)
    /\ q.maxGsd # 0 => GsdCondition(row, q.maxGsd)
    /\ q.query # <<>> => QueryCondition(row, q.query)

\* The conditions the engine tests against row-group statistics, had the
\* spatial filter not been written on the bbox covering columns.
PushedDownNone(q) == <<>>

\* The conditions of the WHERE clause the engine can test against row-group
\* statistics: the four comparisons of the spatial filter on the bbox
\* covering columns, with the parameters bound to them.
PushedDown(q) ==
    IF q.bbox = <<>> THEN <<>>
    ELSE LET p == SpatialParams(q.bbox) IN
         << [col |-> "xmax", op |-> ">=", val |-> p[1]],
            [col |-> "xmin", op |-> "<=", val |-> p[2]],
            [col |-> "ymax", op |-> ">=", val |-> p[3]],
            [col |-> "ymin", op |-> "<=", val |-> p[4]] >>

MinOver(values) == CHOOSE v \in values : \A w \in values : v <= w

MaxOver(values) == CHOOSE v \in values : \A w \in values : v >= w

\* The min/max statistics a row group carries for a bbox covering column.
ColumnStats(group, col) ==
    LET values == { row.bbox[col] : row \in group } IN
        [min |-> MinOver(values), max |-> MaxOver(values)]

\* The statistics leave it possible that a row of the group passes cond.
CanMatch(group, cond) ==
    IF cond.op = ">=" THEN ColumnStats(group, cond.col).max >= cond.val
    ELSE ColumnStats(group, cond.col).min <= cond.val

\* Predicate pushdown: the row groups the scan fetches, those no pushed
\* down condition rules out by statistics.
RowGroupsRead(groups, q) ==
    { g \in groups : \A k \in DOMAIN PushedDown(q) : CanMatch(g, PushedDown(q)[k]) }

\* The ways of laying rows out in row groups.
Layouts(rows) ==
    { layout \in SUBSET (SUBSET rows \ {{}}) :
        /\ UNION layout = rows
        /\ \A g1, g2 \in layout : g1 # g2 => g1 \cap g2 = {} }

\* ORDER BY datetime DESC: any arrangement of the rows with datetime
\* non-increasing; rows of equal datetime come in an order SQL leaves open.
RECURSIVE OrderByDatetimeDesc(_)
OrderByDatetimeDesc(rows) ==
    IF rows = {} THEN {<<>>}
    ELSE UNION { { <<r>> \o rest : rest \in OrderByDatetimeDesc(rows \ {r}) } :
                 r \in { x \in rows : \A y \in rows : TimeLeq(y.datetime, x.datetime) } }

\* LIMIT n
Limit(s, n) == IF Len(s) <= n THEN s ELSE SubSeq(s, 1, n)

Untitled == <<"U", "n", "t", "i", "t", "l", "e", "d">>

Unknown == <<"U", "n", "k", "n", "o", "w", "n">>

UnknownPlatform == <<"u", "n", "k", "n", "o", "w", "n">>

OrElse(v, dflt) == IF v = <<>> THEN dflt ELSE v

\* rows.map(row => ({type: 'Feature', geometry, properties}))
ToFeature(row) ==
    [ geometry |-> << <<row.bbox.xmin, row.bbox.ymin>>, <<row.bbox.xmax, row.bbox.ymin>>,
                      <<row.bbox.xmax, row.bbox.ymax>>, <<row.bbox.xmin, row.bbox.ymax>>,
                      <<row.bbox.xmin, row.bbox.ymin>> >>,
      id |-> row.id,
      title |-> OrElse(row.title, Untitled),
      datetime |-> row.datetime,
      gsd |-> row.gsd,
      platform |-> OrElse(row.platform_type, UnknownPlatform),
      platform_type |-> row.platform_type,
      license |-> OrElse(row.license, Unknown),
      uploaded_at |-> row.uploaded_at ]

\* The results searchCatalog can return for query q over the rows of the
\* catalog file: the sequences of features, one for each order the sort allows.
SearchCatalog(catalog, q) ==
    { [i \in DOMAIN s |-> ToFeature(s[i])] :
        s \in { Limit(o, q.limit) : o \in OrderByDatetimeDesc({ row \in catalog : Where(row, q) }) } }

\* limit = 200
DefaultLimit == 200

Str_CCBY == <<"C", "C", "-", "B", "Y">>

Str_CCBYSA == <<"C", "C", "-", "B", "Y", "-", "S", "A">>

Str_CC0 == <<"C", "C", "0">>

Box(w, s, e, n) == [xmin |-> w, ymin |-> s, xmax |-> e, ymax |-> n]

\* The rows catalogs are drawn from.  Rows 1 and 2 are records A and B of the
\* two-record store; rows 1 and 2 share a datetime; row 3 touches the
\* rectangle [-10,-10,10,10] at one corner; row 4 has NULL columns.
RowPool ==
    { [id |-> 1, bbox |-> Box(-5, -5, 5, 5), datetime |-> <<2, 0>>,
       platform_type |-> <<"U", "A", "V">>, license |-> Str_CCBY, gsd |-> 3,
       title |-> <<"a">>, uploaded_at |-> 1],
      [id |-> 2, bbox |-> Box(20, 20, 30, 30), datetime |-> <<2, 0>>,
       platform_type |-> <<"D", "r", "o", "n", "e">>, license |-> Str_CCBYSA, gsd |-> 5,
       title |-> <<"B", "a">>, uploaded_at |-> 2],
      [id |-> 3, bbox |-> Box(10, 10, 20, 20), datetime |-> <<2, 86399999>>,
       platform_type |-> <<"s", "a", "t">>, license |-> Str_CC0, gsd |-> 0,
       title |-> <<"c">>, uploaded_at |-> 2],
      [id |-> 4, bbox |-> Box(-30, -30, -20, -20), datetime |-> <<1, 0>>,
       platform_type |-> <<>>, license |-> <<>>, gsd |-> 1,
       title |-> <<>>, uploaded_at |-> 3] }

Catalogs == SUBSET RowPool

QueryCoords == {-10, 10, 25}

QueryBoxes ==
    {<<>>} \cup { <<w, s, e, n>> : w \in QueryCoords, s \in QueryCoords,
                                   e \in QueryCoords, n \in QueryCoords }

SearchInputs ==
    [ bbox : QueryBoxes,
      dateStart : {0, 2},
      dateEnd : {0, 1},
      platform : {<<>>, UAV, <<"U", "A", "V">>},
      license : {<<>>, Str_CCBY},
      maxGsd : {0, 3},
      query : {<<>>, <<"A">>},
      limit : {1, DefaultLimit} ]

SearchInit ==
    /\ catalogFile \in Catalogs
    /\ rowGroups \in Layouts(catalogFile)
    /\ searchArgs \in SearchInputs
    /\ searchResult = <<>>
    /\ searchPc = "idle"
    /\ fetched = {}

\* The call of searchCatalog(searchArgs) on an initialised connection.
Search ==
    /\ searchPc = "idle"
    /\ fetched' = RowGroupsRead(rowGroups, searchArgs)
    /\ searchResult' \in SearchCatalog(UNION fetched', searchArgs)
    /\ searchPc' = "returned"
    /\ UNCHANGED <<catalogFile, searchArgs, rowGroups, notSearchVars>>

InitOfSpecSearch == CatOff /\ SearchInit /\ AppOff /\ CompOff /\ PipeOff /\ ModalOff /\ ReadOff /\ UploadOff /\ MapOff

SpecSearch == InitOfSpecSearch /\ [][Search]_vars

FeatureBox(f) ==
    [xmin |-> f.geometry[1][1], ymin |-> f.geometry[1][2],
     xmax |-> f.geometry[3][1], ymax |-> f.geometry[3][2]]

Overlaps(b, west, south, east, north) ==
    b.xmax >= west /\ b.xmin <= east /\ b.ymax >= south /\ b.ymin <= north

MinOf(a, b) == IF a <= b THEN a ELSE b

MaxSearches == 3

\* The catalog the App's searches read.
AppCatalog == RowPool

\* The bounds the map reports on moveend.
Viewports == { <<-10, -10, 10, 10>>, <<25, 25, 25, 25>> }

EmptyFilters == [dateStart |-> 0, dateEnd |-> 0, platform |-> <<>>, license |-> <<>>]

\* The filter objects MapFilterBar reports.
FilterChoices == { EmptyFilters, [EmptyFilters EXCEPT !.platform = UAV] }

NoTimer == <<>>

NoSearch == [seq |-> 0, bbox |-> <<>>, filters |-> EmptyFilters, state |-> "none"]

\* The argument object runSearch passes to searchCatalog.
RunSearchArgs(bbox, currentFilters) ==
    [bbox |-> bbox, dateStart |-> currentFilters.dateStart, dateEnd |-> currentFilters.dateEnd,
     platform |-> currentFilters.platform, license |-> currentFilters.license,
     maxGsd |-> 0, query |-> <<>>, limit |-> DefaultLimit]

\* What a render's closures hold: runSearch holds catalogReady, the effect and
\* onUploadComplete hold viewportBbox and filters.
Closure(bbox, f, ready) == [bbox |-> bbox, filters |-> f, ready |-> ready]

AppInit ==
    /\ appInit = "pending"
    /\ catalogReady = FALSE
    /\ viewportBbox = <<>>
    /\ filters \in FilterChoices
    /\ features = <<>>
    /\ isSearching = FALSE
    /\ searchDebounce = NoTimer
    /\ inflight = {}
    /\ latest = NoSearch
    /\ uploadClosure = <<>>

\* The search effect, had it left a pending timer in place instead of
\* clearing it and starting a new one.
SearchEffectKeepsPending(bbox, f, ready) ==
    IF searchDebounce # NoTimer THEN searchDebounce
    ELSE IF bbox = <<>> THEN NoTimer ELSE Closure(bbox, f, ready)

\* The search effect after a render in which viewportBbox, filters or
\* runSearch changed: the previous run's cleanup clears its timer, and the new
\* run starts one unless viewportBbox is null.
SearchEffect(bbox, f, ready) ==
    IF bbox = <<>> THEN NoTimer ELSE Closure(bbox, f, ready)

\* runSearch, had it called searchCatalog whatever catalogReady and bbox are.
RunSearchUnguarded(cl) ==
    /\ isSearching' = TRUE
    /\ inflight' = inflight \cup
           {[seq |-> latest.seq + 1, bbox |-> cl.bbox, filters |-> cl.filters]}
    /\ latest' = [seq |-> latest.seq + 1, bbox |-> cl.bbox, filters |-> cl.filters,
                  state |-> "inflight"]

\* runSearch up to its await: the guard, setIsSearching(true) and the call of
\* searchCatalog.  cl holds the values of the closure that runs it.
RunSearch(cl) ==
    IF ~cl.ready \/ cl.bbox = <<>>
    THEN UNCHANGED <<isSearching, inflight, latest>>
    ELSE /\ isSearching' = TRUE
         /\ inflight' = inflight \cup
                {[seq |-> latest.seq + 1, bbox |-> cl.bbox, filters |-> cl.filters]}
         /\ latest' = [seq |-> latest.seq + 1, bbox |-> cl.bbox, filters |-> cl.filters,
                       state |-> "inflight"]

\* initCatalog() resolves: setCatalogReady(true), getCatalogStats() is called;
\* runSearch is recreated and the search effect runs again.
CatalogReady ==
    /\ appInit = "pending"
    /\ appInit' = "stats"
    /\ catalogReady' = TRUE
    /\ searchDebounce' = SearchEffect(viewportBbox, filters, TRUE)
    /\ UNCHANGED <<viewportBbox, filters, features, isSearching, inflight, latest,
                   uploadClosure, notAppVars>>

\* getCatalogStats() resolves: setCatalogStats(stats).
StatsLoaded ==
    /\ appInit = "stats"
    /\ appInit' = "loaded"
    /\ UNCHANGED <<catalogReady, viewportBbox, filters, features, isSearching,
                   searchDebounce, inflight, latest, uploadClosure, notAppVars>>

\* initCatalog() rejects: the catch logs a warning.
CatalogInitFails ==
    /\ appInit = "pending"
    /\ appInit' = "failed"
    /\ UNCHANGED <<catalogReady, viewportBbox, filters, features, isSearching,
                   searchDebounce, inflight, latest, uploadClosure, notAppVars>>

\* handleMapMoveEnd: the map reports new bounds (a new array each time).
HandleMapMoveEnd(b) ==
    /\ viewportBbox' = b
    /\ searchDebounce' = SearchEffect(b, filters, catalogReady)
    /\ UNCHANGED <<appInit, catalogReady, filters, features, isSearching, inflight,
                   latest, uploadClosure, notAppVars>>

\* handleFilterChange: MapFilterBar reports a new filter object.
HandleFilterChange(f) ==
    /\ filters' = f
    /\ searchDebounce' = SearchEffect(viewportBbox, f, catalogReady)
    /\ UNCHANGED <<appInit, catalogReady, viewportBbox, features, isSearching, inflight,
                   latest, uploadClosure, notAppVars>>

\* The 300 ms debounce timer fires: runSearch(viewportBbox, filters) of the
\* closure that set it.
DebounceFires ==
    /\ searchDebounce # NoTimer
    /\ latest.seq < MaxSearches
    /\ RunSearch(searchDebounce)
    /\ searchDebounce' = NoTimer
    /\ UNCHANGED <<appInit, catalogReady, viewportBbox, filters, features,
                   uploadClosure, notAppVars>>

\* searchCatalog resolves: setFeatures(results); setIsSearching(false).
SearchResolves(s) ==
    /\ s \in inflight
    /\ features' \in SearchCatalog(AppCatalog, RunSearchArgs(s.bbox, s.filters))
    /\ isSearching' = FALSE
    /\ inflight' = inflight \ {s}
    /\ latest' = IF s.seq = latest.seq THEN [latest EXCEPT !.state = "resolved"] ELSE latest
    /\ UNCHANGED <<appInit, catalogReady, viewportBbox, filters, searchDebounce,
                   uploadClosure, notAppVars>>

\* searchCatalog rejects: the catch logs a warning; setIsSearching(false).
SearchRejects(s) ==
    /\ s \in inflight
    /\ isSearching' = FALSE
    /\ inflight' = inflight \ {s}
    /\ latest' = IF s.seq = latest.seq THEN [latest EXCEPT !.state = "rejected"] ELSE latest
    /\ UNCHANGED <<appInit, catalogReady, viewportBbox, filters, features, searchDebounce,
                   uploadClosure, notAppVars>>

\* The user starts an upload: the modal's handleUpload, and through it
\* pollStatus, hold the onUploadComplete of the current render.
UploadStarts ==
    /\ uploadClosure = <<>>
    /\ uploadClosure' = Closure(viewportBbox, filters, catalogReady)
    /\ UNCHANGED <<appInit, catalogReady, viewportBbox, filters, features, isSearching,
                   searchDebounce, inflight, latest, notAppVars>>

\* onUploadComplete: if (viewportBbox) runSearch(viewportBbox, filters)
UploadCompletes ==
    /\ uploadClosure # <<>>
    /\ latest.seq < MaxSearches
    /\ RunSearch(uploadClosure)
    /\ uploadClosure' = <<>>
    /\ UNCHANGED <<appInit, catalogReady, viewportBbox, filters, features,
                   searchDebounce, notAppVars>>

AppNext ==
    \/ CatalogReady
    \/ StatsLoaded
    \/ CatalogInitFails
    \/ \E b \in Viewports : HandleMapMoveEnd(b)
    \/ \E f \in FilterChoices : HandleFilterChange(f)
    \/ DebounceFires
    \/ \E s \in inflight : SearchResolves(s)
    \/ \E s \in inflight : SearchRejects(s)
    \/ UploadStarts
    \/ UploadCompletes

InitOfSpecApp == CatOff /\ SearchOff /\ AppInit /\ CompOff /\ PipeOff /\ ModalOff /\ ReadOff /\ UploadOff /\ MapOff

SpecApp == InitOfSpecApp /\ [][AppNext]_vars

\* C2: once every search has settled and the most recently issued one
\* succeeded, features holds the result of that most recently issued search,
\* whatever the order in which the searches completed.
C2_LatestSearchWins ==
    (inflight = {} /\ latest.state = "resolved") =>
        features \in SearchCatalog(AppCatalog, RunSearchArgs(latest.bbox, latest.filters))

\* C22: once every search has settled and the most recently issued one
\* failed (searchCatalog threw), the App shows no results of an earlier
\* search (it has no error state other than the empty list), and the
\* searching indicator is cleared.
C22_FailedSearchShowsNoResults ==
    (inflight = {} /\ latest.state = "rejected") =>
        /\ features = <<>>
        /\ ~isSearching

\* C26: isSearching is true whenever a searchCatalog call started by
\* runSearch is still in flight, also when several searches overlap.
C26_SearchingWhileInFlight == inflight # {} => isSearching

\* A pending debounce timer fires in the end.
SpecAppFair == SpecApp /\ WF_vars(DebounceFires)

\* C28: a searchCatalog call is started only with catalogReady true and a
\* bbox; when catalogReady becomes true with a viewport already reported, the
\* effect starts the timer for the current viewport and filters; and from
\* there a search is issued in the end, without a further user action.
C28_SearchOnceReady ==
    /\ [][\A s \in inflight' \ inflight : catalogReady /\ s.bbox # <<>>]_vars
    /\ [][(~catalogReady /\ catalogReady' /\ viewportBbox # <<>>) =>
             searchDebounce' = Closure(viewportBbox, filters, TRUE)]_vars
    /\ (catalogReady /\ viewportBbox # <<>> /\ latest.seq = 0) ~> (latest.seq >= 1)

\* The first search was issued for the current viewport right after the
\* catalog became ready (its statistics are not loaded yet), and no timer is
\* left.
C28_Witness ==
    /\ appInit = "stats"
    /\ latest.seq = 1
    /\ latest.state = "inflight"
    /\ latest.bbox = viewportBbox
    /\ latest.filters = filters
    /\ searchDebounce = NoTimer

\* C29: the one pending debounce timer is the one started by the last change
\* of viewport, filters or runSearch, and a timer that fires searches the
\* most recent viewport and filters, never one that was replaced while the
\* timer was pending.
C29_TimerHoldsLatest ==
    /\ [](searchDebounce # NoTimer =>
             searchDebounce = Closure(viewportBbox, filters, catalogReady))
    /\ [][(searchDebounce # NoTimer /\ searchDebounce' = NoTimer
           /\ latest'.seq # latest.seq) =>
             latest'.bbox = viewportBbox /\ latest'.filters = filters]_vars

\* After one search, the viewport and then the filters changed and the
\* timer fired once more: the second search is for the second viewport and
\* the changed filters.
C29_Witness ==
    /\ latest.seq = 2
    /\ latest.bbox = <<25, 25, 25, 25>>
    /\ latest.filters = [EmptyFilters EXCEPT !.platform = UAV]
    /\ viewportBbox = latest.bbox
    /\ filters = latest.filters
    /\ searchDebounce = NoTimer
    /\ uploadClosure = <<>>

(***************************************************************************)
(* The catalog store: sidecar registration and the scheduled catalog       *)
(* rebuild (compaction)                                                    *)
(***************************************************************************)

NumRuns == 2

MaxRegistrations == 3

Runs == 1..NumRuns

\* The ids uploads carry and the uploaded_at timestamps they can have.
Ids == {1, 2}

Times == {1, 2}

SidecarRecords == [id : Ids, uploaded_at : Times]

IdsOf(rows) == { row.id : row \in rows }

\* The steps of one rebuild, in order: read catalog.parquet and the pending
\* sidecars, merge and sort, write the new file, upload (publish) it, delete
\* the merged sidecars.
CompactStepsDeleteFirst == <<"read", "merge", "delete", "write", "publish">>

CompactSteps == <<"read", "merge", "write", "publish", "delete">>

IdleRun == [pos |-> 0, prev |-> {}, side |-> {}, merged |-> {}, temp |-> {},
            written |-> FALSE, published |-> FALSE]

Active(r) == runs[r].pos # 0

StepOf(r) == IF Active(r) THEN CompactSteps[runs[r].pos] ELSE "idle"

\* The run moves to its next step, or ends after the last one.
Advance(run) ==
    IF run.pos = Len(CompactSteps) THEN IdleRun ELSE [run EXCEPT !.pos = @ + 1]

Ended(r, how) ==
    outcomes' = [outcomes EXCEPT ![r] = IF runs'[r].pos = 0 THEN how ELSE @]

CompInit ==
    /\ snapshot = {}
    /\ pending = {}
    /\ runs = [r \in Runs |-> IdleRun]
    /\ outcomes = [r \in Runs |-> "none"]
    /\ registered = [i \in Ids |-> 0]
    /\ nRegistered = 0

\* Registering writes the record as one sidecar at the path keyed by its id,
\* replacing what was at that path.
WriteSidecar(area, rec) == { p \in area : p.id # rec.id } \cup {rec}

\* The Registering step of an ingestion job.
RegisterSidecar(rec) ==
    /\ nRegistered < MaxRegistrations
    /\ pending' = WriteSidecar(pending, rec)
    /\ registered' = [registered EXCEPT ![rec.id] = rec.uploaded_at]
    /\ nRegistered' = nRegistered + 1
    /\ UNCHANGED <<snapshot, runs, outcomes, notCompVars>>

\* The non-reentrancy test of a newly triggered run, had it been left out.
RunActiveNever == FALSE

\* A run is already active.
RunActive == \E r \in Runs : Active(r)

\* The schedule triggers invocation r: it is skipped when a run is active,
\* and starts at the first step otherwise.
Trigger(r) ==
    /\ ~Active(r)
    /\ IF RunActive
       THEN /\ outcomes' = [outcomes EXCEPT ![r] = "skipped"]
            /\ UNCHANGED runs
       ELSE /\ runs' = [runs EXCEPT ![r] = [IdleRun EXCEPT !.pos = 1]]
            /\ outcomes' = [outcomes EXCEPT ![r] = "running"]
    /\ UNCHANGED <<snapshot, pending, registered, nRegistered, notCompVars>>

\* Step "read": the current snapshot and the sidecars present now.
Read(r) ==
    /\ StepOf(r) = "read"
    /\ runs' = [runs EXCEPT ![r] = Advance([@ EXCEPT !.prev = snapshot, !.side = pending])]
    /\ Ended(r, "done")
    /\ UNCHANGED <<snapshot, pending, registered, nRegistered, notCompVars>>

\* The rows the merge selects from, had the previous catalog been left out.
MergeInputSidecarsOnly(prev, side) == side

\* SELECT * FROM read_parquet(['catalog.parquet', 'catalog/pending/*.parquet'])
MergeInput(prev, side) == prev \cup side

\* The union keyed by id, had duplicate ids been kept.
LatestPerIdKeepAll(rows) == rows

\* The union keyed by id: of the rows sharing an id, the one with the latest
\* uploaded_at.
LatestPerId(rows) ==
    { CHOOSE row \in rows :
          /\ row.id = i
          /\ \A other \in rows : other.id = i => other.uploaded_at <= row.uploaded_at
      : i \in IdsOf(rows) }

\* Step "merge": the new catalog's rows.
Merge(r) ==
    /\ StepOf(r) = "merge"
    /\ runs' = [runs EXCEPT ![r] =
                  Advance([@ EXCEPT !.merged = LatestPerId(MergeInput(runs[r].prev, runs[r].side))])]
    /\ Ended(r, "done")
    /\ UNCHANGED <<snapshot, pending, registered, nRegistered, notCompVars>>

\* Step "write": the new catalog file is written next to the published one.
Write(r) ==
    /\ StepOf(r) = "write"
    /\ runs' = [runs EXCEPT ![r] = Advance([@ EXCEPT !.temp = runs[r].merged, !.written = TRUE])]
    /\ Ended(r, "done")
    /\ UNCHANGED <<snapshot, pending, registered, nRegistered, notCompVars>>

\* Step "publish": the written file replaces the published catalog.
Publish(r) ==
    /\ StepOf(r) = "publish"
    /\ runs[r].written
    /\ snapshot' = runs[r].temp
    /\ runs' = [runs EXCEPT ![r] = Advance([@ EXCEPT !.published = TRUE])]
    /\ Ended(r, "done")
    /\ UNCHANGED <<pending, registered, nRegistered, notCompVars>>

\* The sidecars a run deletes, had it emptied the pending area.
DeleteTargetsAllPending(run) == pending

\* The sidecars a run deletes, had it deleted by path whatever the path holds.
DeleteTargetsByPath(run) == { p \in pending : p.id \in IdsOf(run.side) }

\* The sidecars a run deletes: the merged ones, those it read.
DeleteTargets(run) == run.side \cap pending

\* Step "delete": one merged sidecar is deleted.
DeleteSidecar(r, p) ==
    /\ StepOf(r) = "delete"
    /\ p \in DeleteTargets(runs[r])
    /\ pending' = pending \ {p}
    /\ UNCHANGED <<snapshot, runs, outcomes, registered, nRegistered, notCompVars>>

\* Step "delete" ends when no merged sidecar is left.
DeleteDone(r) ==
    /\ StepOf(r) = "delete"
    /\ DeleteTargets(runs[r]) = {}
    /\ runs' = [runs EXCEPT ![r] = Advance(@)]
    /\ Ended(r, "done")
    /\ UNCHANGED <<snapshot, pending, registered, nRegistered, notCompVars>>

\* The run is interrupted or fails at its current step: it ends there, and
\* what it had read, merged or written is dropped.
Fail(r) ==
    /\ Active(r)
    /\ runs' = [runs EXCEPT ![r] = IdleRun]
    /\ outcomes' = [outcomes EXCEPT ![r] = StepOf(r)]
    /\ UNCHANGED <<snapshot, pending, registered, nRegistered, notCompVars>>

CompNext ==
    \/ \E rec \in SidecarRecords : RegisterSidecar(rec)
    \/ \E r \in Runs :
          \/ Trigger(r)
          \/ Read(r)
          \/ Merge(r)
          \/ Write(r)
          \/ Publish(r)
          \/ \E p \in SidecarRecords : DeleteSidecar(r, p)
          \/ DeleteDone(r)
          \/ Fail(r)

InitOfSpecCompact == CatOff /\ SearchOff /\ AppOff /\ CompInit /\ PipeOff /\ ModalOff /\ ReadOff /\ UploadOff /\ MapOff

SpecCompact == InitOfSpecCompact /\ [][CompNext]_vars

\* C4: a step changes the published snapshot only by publishing a completely
\* written file, a sidecar leaves the pending area only while a run that has
\* published is deleting, and a run that ends before it published leaves the
\* snapshot and every sidecar in place.
C4_CompactionAtomicity ==
    [][ /\ snapshot' # snapshot =>
              \E r \in Runs : runs[r].written /\ runs'[r].published /\ snapshot' = runs[r].temp
        /\ ~(IdsOf(pending) \subseteq IdsOf(pending')) => \E r \in Runs : runs[r].published
        /\ \A r \in Runs :
              (Active(r) /\ ~runs[r].published /\ ~Active(r)')
                 => snapshot' = snapshot /\ pending' = pending
      ]_vars

\* A run was interrupted after it had written the new file and before it
\* published it: the snapshot is still the previous one and the sidecar it
\* had read is still pending.
C4_Witness ==
    \E r \in Runs :
        /\ outcomes[r] = "publish"
        /\ snapshot = {[id |-> 1, uploaded_at |-> 1]}
        /\ pending = {[id |-> 2, uploaded_at |-> 1]}

\* C5: under any interleaving of registrations and compaction runs, every id
\* whose sidecar has been registered has a record in the pending area or in
\* the published snapshot, and the sidecar registered last for it is either
\* still pending or merged: the snapshot's record for the id is at least as
\* late.  A run deletes only sidecars it read.
C5_NoSidecarLost ==
    \A i \in Ids :
        registered[i] # 0 =>
            \/ [id |-> i, uploaded_at |-> registered[i]] \in pending
            \/ \E row \in snapshot : row.id = i /\ row.uploaded_at >= registered[i]

\* A sidecar was registered between a run's read point and its delete step:
\* the run has deleted what it read and the later sidecar is still pending.
C5_Witness ==
    \E r \in Runs :
        /\ StepOf(r) = "delete"
        /\ runs[r].side = {[id |-> 1, uploaded_at |-> 1]}
        /\ snapshot = {[id |-> 1, uploaded_at |-> 1]}
        /\ pending = {[id |-> 1, uploaded_at |-> 2]}
        /\ DeleteTargets(runs[r]) = {}

\* C6: when a run has published, the ids of the new snapshot include the ids
\* of the snapshot it read and the ids of the sidecars present at its read
\* point.
C6_CompactionComplete ==
    \A r \in Runs :
        runs[r].published =>
            (IdsOf(runs[r].prev) \cup IdsOf(runs[r].side)) \subseteq IdsOf(snapshot)

\* A run that read a non-empty snapshot and a sidecar with another id has
\* published.
C6_Witness ==
    \E r \in Runs :
        /\ runs[r].published
        /\ IdsOf(runs[r].prev) = {1}
        /\ IdsOf(runs[r].side) = {2}
        /\ IdsOf(snapshot) = {1, 2}

C8_NonReentrant ==
    /\ Cardinality({ r \in Runs : Active(r) }) <= 1
    /\ \A r \in Runs : outcomes[r] = "skipped" => runs[r] = IdleRun

\* A trigger was skipped while another run was at its publish step.
C8_Witness ==
    \E r1, r2 \in Runs :
        /\ outcomes[r1] = "skipped"
        /\ StepOf(r2) = "publish"

(***************************************************************************)
(* The ingestion pipeline: one state machine execution per invocation,     *)
(* writing status.json, the converted assets and the sidecar               *)
(***************************************************************************)

NumInvocations == 2

Invocations == 1..NumInvocations

\* The states of a job, in order.
PipelineStates ==
    <<"Received", "Validating", "Converting", "ThumbnailGenerating",
      "MetadataExtracting", "Registering", "Complete">>

\* UploadModal.jsx: the step keys status.json carries, in the same order.
PROCESSING_STEPS ==
    <<"downloading", "validating", "converting", "thumbnail", "uploading",
      "cataloging", "done">>

Terminal == {"Complete", "Error"}

IndexOf(state) == CHOOSE k \in DOMAIN PipelineStates : PipelineStates[k] = state

StepKey(state) == PROCESSING_STEPS[IndexOf(state)]

\* The state after a step that succeeded, had thumbnail generation been
\* jumped over.
NextStateSkipping(state) ==
    IF state = "Converting" THEN "MetadataExtracting"
    ELSE PipelineStates[IndexOf(state) + 1]

\* The state after a step that succeeded.
NextState(state) == PipelineStates[IndexOf(state) + 1]

\* What Validating rejects: no CRS, implausible bounds, bounds centred on
\* the origin, an unparseable file, a file over the size limit.
Defects == {"missing CRS", "invalid bounds", "null island", "not a GeoTIFF", "file too large"}

\* Validating, had it not looked for the CRS.
ValidationPassesNoCrsCheck(file) == file.defect \in {"none", "missing CRS"}

\* Validating accepts the file.
ValidationPasses(file) == file.defect = "none"

NoStatus == [step |-> "none", status |-> "none", error |-> "none"]

NoCandidate == [id |-> 0, uploaded_at |-> 0]

\* An execution slot not yet used: entered lists the states the execution
\* has been in, outputs the durable objects it has written, candidate the
\* record MetadataExtracting built.
IdleInvocation ==
    [job |-> 0, state |-> "Idle", entered |-> <<>>, outputs |-> {},
     candidate |-> NoCandidate]

\* Execution inv moves to state st.
Enter(inv, st) == [inv EXCEPT !.state = st, !.entered = Append(inv.entered, st)]

\* The reason recorded when a step other than Validating fails.
FailureReason(state) ==
    CASE state = "Received" -> "download failed"
      [] state = "Registering" -> "RegistrationError"
      [] OTHER -> "ProcessingError"

\* The test for an execution under way, had the trigger not made it.
RunningNever(j) == FALSE

\* One instance per job id: an execution for upload j is under way.
Running(j) ==
    \E i \in Invocations :
        invocations[i].job = j /\ invocations[i].state \notin Terminal

PipeInit ==
    /\ input \in [Ids -> [defect : Defects \cup {"none"}, uploaded_at : {1}]]
    /\ invocations = [i \in Invocations |-> IdleInvocation]
    /\ status = [j \in Ids |-> NoStatus]
    /\ assets = {}
    /\ snapshot = {}
    /\ pending = {}
    /\ runs = <<>>
    /\ outcomes = <<>>
    /\ registered = [j \in Ids |-> 0]
    /\ nRegistered = 0

\* The candidate record, had it been stamped with the execution that built
\* it instead of being derived from the job's input.
CandidateStampedPerInvocation(i, j) == [id |-> j, uploaded_at |-> i]

\* MetadataExtracting: the candidate record execution i builds for upload j,
\* from the converted asset and the caller-supplied fields.
Candidate(i, j) == [id |-> j, uploaded_at |-> input[j].uploaded_at]

\* The file of upload j lands in staging/ (for the first time, or on an
\* external re-trigger): an execution starts for it in state Received.
StartJob(i, j) ==
    /\ invocations[i].state = "Idle"
    /\ ~Running(j)
    /\ invocations' = [invocations EXCEPT ![i] = Enter([IdleInvocation EXCEPT !.job = j], "Received")]
    /\ status' = [status EXCEPT ![j] =
                    [step |-> StepKey("Received"), status |-> "processing", error |-> "none"]]
    /\ UNCHANGED <<input, assets, compVars, notPipeVars>>

\* The durable output of a step that succeeded.
OutputOf(state) ==
    CASE state = "Converting" -> {"imagery"}
      [] state = "ThumbnailGenerating" -> {"thumbnails"}
      [] state = "Registering" -> {"sidecar"}
      [] OTHER -> {}

\* The current step of execution i succeeds: its output is written at the
\* location keyed by the job id, the execution moves to the next state and
\* status.json is written for it.
StepSucceeds(i) ==
    LET j == invocations[i].job
        st == invocations[i].state
        nxt == NextState(st)
    IN  /\ st \notin Terminal \cup {"Idle"}
        /\ st = "Validating" => ValidationPasses(input[j])
        /\ invocations' = [invocations EXCEPT ![i] =
                              [Enter(invocations[i], nxt) EXCEPT
                                 !.outputs = invocations[i].outputs \cup OutputOf(st),
                                 !.candidate = IF st = "MetadataExtracting"
                                               THEN Candidate(i, j)
                                               ELSE invocations[i].candidate]]
        /\ assets' = assets \cup { <<kind, j>> : kind \in OutputOf(st) \ {"sidecar"} }
        /\ IF st = "Registering"
           THEN /\ pending' = WriteSidecar(pending, invocations[i].candidate)
                /\ registered' = [registered EXCEPT ![j] = invocations[i].candidate.uploaded_at]
                /\ nRegistered' = nRegistered + 1
           ELSE UNCHANGED <<pending, registered, nRegistered>>
        /\ status' = [status EXCEPT ![j] =
                        [step |-> StepKey(nxt),
                         status |-> IF nxt = "Complete" THEN "complete" ELSE "processing",
                         error |-> "none"]]
        /\ UNCHANGED <<input, snapshot, runs, outcomes, notPipeVars>>

\* Validating rejects the file: the execution ends in Error and status.json
\* records the reason.
ValidationFails(i) ==
    LET j == invocations[i].job IN
        /\ invocations[i].state = "Validating"
        /\ ~ValidationPasses(input[j])
        /\ invocations' = [invocations EXCEPT ![i] = Enter(invocations[i], "Error")]
        /\ status' = [status EXCEPT ![j] =
                        [step |-> StepKey("Validating"), status |-> "error",
                         error |-> input[j].defect]]
        /\ UNCHANGED <<input, assets, compVars, notPipeVars>>

\* Another step fails: the execution ends in Error and status.json records
\* the failing step's error.
StepFails(i) ==
    LET j == invocations[i].job
        st == invocations[i].state
    IN  /\ st \notin Terminal \cup {"Idle", "Validating"}
        /\ invocations' = [invocations EXCEPT ![i] = Enter(invocations[i], "Error")]
        /\ status' = [status EXCEPT ![j] =
                        [step |-> StepKey(st), status |-> "error", error |-> FailureReason(st)]]
        /\ UNCHANGED <<input, assets, compVars, notPipeVars>>

PipeNext ==
    \/ \E i \in Invocations, j \in Ids : StartJob(i, j)
    \/ \E i \in Invocations :
          \/ StepSucceeds(i)
          \/ ValidationFails(i)
          \/ StepFails(i)

InitOfSpecPipeline == CatOff /\ SearchOff /\ AppOff /\ PipeInit /\ ModalOff /\ ReadOff /\ UploadOff /\ MapOff

SpecPipeline == InitOfSpecPipeline /\ [][PipeNext]_vars

\* The states in seq are an initial part of the required order, ended or
\* not by Error.
InRequiredOrder(seq) ==
    LET n == Len(seq)
        m == IF n > 0 /\ seq[n] = "Error" THEN n - 1 ELSE n
    IN  /\ m <= Len(PipelineStates)
        /\ \A k \in 1..m : seq[k] = PipelineStates[k]
        /\ n > 0 /\ seq[n] = "Error" => m >= 1 /\ seq[m] \notin Terminal

\* C9: a job's execution only moves along Received, Validating, Converting,
\* ThumbnailGenerating, MetadataExtracting, Registering, Complete. It starts
\* in Received, every other state is entered only from the one just before
\* it, so none is skipped or entered twice; Error is entered only from a
\* state that is not terminal; once in Complete or Error the execution
\* never changes state again.
C9_RequiredOrder ==
    [][\A i \in Invocations :
        LET old == invocations[i].state
            new == invocations'[i].state
        IN  /\ InRequiredOrder(invocations'[i].entered)
            /\ old # new =>
                  /\ old \notin Terminal
                  /\ invocations'[i].entered = Append(invocations[i].entered, new)
                  /\ \/ old = "Idle" /\ new = "Received"
                     \/ old # "Idle" /\ new = "Error"
                     \/ old # "Idle" /\ new = PipelineStates[IndexOf(old) + 1]]_vars

\* One execution has gone through all seven states to Complete and another
\* has ended in Error out of a state past Validating.
C9_Witness ==
    \E i, k \in Invocations :
        /\ invocations[i].entered = PipelineStates
        /\ invocations[i].state = "Complete"
        /\ invocations[k].state = "Error"
        /\ invocations[k].entered = <<"Received", "Validating", "Converting", "Error">>

\* Execution inv ended because Validating failed.
ValidationFailed(inv) ==
    /\ Len(inv.entered) >= 2
    /\ inv.entered[Len(inv.entered)] = "Error"
    /\ inv.entered[Len(inv.entered) - 1] = "Validating"

LaterStates == {"Converting", "ThumbnailGenerating", "MetadataExtracting", "Registering", "Complete"}

\* C10: a file that lacks a spatial reference, has implausible or
\* null-island bounds, does not parse or is over the size limit never gets
\* past Validating: its execution enters none of Converting,
\* ThumbnailGenerating, MetadataExtracting, Registering, writes no output
\* and no sidecar exists for it. The step in which Validating fails puts the
\* execution in Error, writes {step: validating, status: error, error: the
\* reason} to the job's status and leaves the pending area alone; the
\* execution stays that way ever after.
C10_ValidationFailureHalts ==
    [][/\ \A i \in Invocations :
            LET inv == invocations'[i] IN
                /\ (inv.job # 0 /\ input'[inv.job].defect \in Defects) =>
                      /\ \A k \in DOMAIN inv.entered : inv.entered[k] \notin LaterStates
                      /\ inv.outputs = {}
                      /\ inv.candidate = NoCandidate
                      /\ \A p \in pending' : p.id # inv.job
                /\ (invocations[i].state = "Validating" /\ inv.state = "Error"
                    /\ ~ValidationFailed(invocations[i])) =>
                      /\ input[inv.job].defect \in Defects
                      /\ status'[inv.job] =
                            [step |-> "validating", status |-> "error",
                             error |-> input[inv.job].defect]
                      /\ pending' = pending /\ assets' = assets
                /\ ValidationFailed(invocations[i]) => inv = invocations[i]
                /\ ValidationFailed(inv) =>
                      /\ inv.state = "Error"
                      /\ inv.entered = <<"Received", "Validating", "Error">>
                      /\ inv.outputs = {}]_vars

\* Scenario B: an upload without a CRS has failed Validating, its status is
\* {step: validating, status: error, error: missing CRS}, it has no sidecar
\* and no asset, while another upload's sidecar has been written.
C10_Witness ==
    \E i \in Invocations :
        LET j == invocations[i].job IN
            /\ ValidationFailed(invocations[i])
            /\ input[j].defect = "missing CRS"
            /\ status[j] = [step |-> "validating", status |-> "error", error |-> "missing CRS"]
            /\ \A p \in pending : p.id # j
            /\ \A a \in assets : a[2] # j
            /\ pending # {}

(***************************************************************************)
(* Ingestion and the catalog rebuild together: executions write sidecars   *)
(* while rebuild runs merge and delete them                                *)
(***************************************************************************)

\* Two uploads with valid files, no execution started, an empty catalog.
IngestInit ==
    /\ input = [j \in Ids |-> [defect |-> "none", uploaded_at |-> 1]]
    /\ invocations = [i \in Invocations |-> IdleInvocation]
    /\ status = [j \in Ids |-> NoStatus]
    /\ assets = {}
    /\ CompInit

\* The upload whose file lands in staging/, again on every re-trigger.
IngestIds == {1}

\* The executions are numbered in the order they start.
StartNext(i, j) ==
    /\ \A k \in Invocations : k < i => invocations[k].state # "Idle"
    /\ StartJob(i, j)

IngestNext ==
    \/ \E i \in Invocations, j \in IngestIds : StartNext(i, j)
    \/ \E i \in Invocations :
          \/ StepSucceeds(i)
          \/ StepFails(i)
    \/ \E r \in Runs :
          \/ Trigger(r)
          \/ Read(r)
          \/ Merge(r)
          \/ Write(r)
          \/ Publish(r)
          \/ \E p \in SidecarRecords : DeleteSidecar(r, p)
          \/ DeleteDone(r)
          \/ Fail(r)

InitOfSpecIngest == CatOff /\ SearchOff /\ AppOff /\ IngestInit /\ ModalOff /\ ReadOff /\ UploadOff /\ MapOff

SpecIngest == InitOfSpecIngest /\ [][IngestNext]_vars

\* The sidecar one complete execution for upload j writes.
SingleRunSidecar(j) == [id |-> j, uploaded_at |-> input[j].uploaded_at]

RowsOf(rows, j) == { row \in rows : row.id = j }

IsTerminalStatus(rec) == rec.status \in {"complete", "error"}

\* Upload j is triggered again: an unused execution starts for it.
Retriggered(j) ==
    \E i \in Invocations :
        /\ invocations[i].state = "Idle"
        /\ invocations'[i].job = j
        /\ invocations'[i].state = "Received"

maxPolls == 120

MaxInflight == 2

\* The upload the dialog polls, and the execution its file triggers.
PolledId == 1

PolledExecution == 1

\* The message of the timeout branch (its dash written as "-").
TimeoutMessage == "Processing timed out. The image may still be processing - check back later."

ProcessingFailed == "Processing failed"

\* The position of a step key in PROCESSING_STEPS, 0 for null.
StepIndex(key) ==
    IF key = "null" THEN 0
    ELSE CHOOSE k \in DOMAIN PROCESSING_STEPS : PROCESSING_STEPS[k] = key

\* What a fetch of status.json can produce: the record, when there is one,
\* or nothing (a response that is not ok, or a fetch that throws).
FetchStatus(id) == {status[id], NoStatus}

\* The test of the poll budget, had it been left out.
BudgetExceededNever(count) == FALSE

\* if (pollCount > maxPolls)
BudgetExceeded(count) == count > maxPolls

\* handleUpload has put the file and called pollStatus(upload_id); the
\* pipeline has not started on the file yet.
PollInit ==
    /\ modalStatus = "processing"
    /\ processingStep = "null"
    /\ error = ""
    /\ pollCount = 0
    /\ pollRef = TRUE
    /\ fetches = <<>>
    /\ \E d \in {"none", "missing CRS"} :
          input = [j \in Ids |-> [defect |-> IF j = PolledId THEN d ELSE "none",
                                  uploaded_at |-> 1]]
    /\ invocations = [i \in Invocations |-> IdleInvocation]
    /\ status = [j \in Ids |-> NoStatus]
    /\ assets = {}
    /\ CompInit

\* The interval callback up to its first await: it counts the poll, gives up
\* when the budget is exceeded and starts a fetch of status.json otherwise.
PollTick ==
    /\ pollRef
    /\ pollCount' = pollCount + 1
    /\ IF BudgetExceeded(pollCount + 1)
       THEN /\ pollRef' = FALSE
            /\ modalStatus' = "error"
            /\ error' = TimeoutMessage
            /\ UNCHANGED <<processingStep, fetches>>
       ELSE /\ Len(fetches) < MaxInflight
            /\ \E data \in FetchStatus(PolledId) : fetches' = Append(fetches, data)
            /\ UNCHANGED <<modalStatus, processingStep, error, pollRef>>
    /\ UNCHANGED notModalVars

Remove(seq, k) == [n \in 1..(Len(seq) - 1) |-> IF n < k THEN seq[n] ELSE seq[n + 1]]

\* data.error || 'Processing failed'
ErrorOf(data) == IF data.error \in {"none", ""} THEN ProcessingFailed ELSE data.error

\* The dialog's <<status, error, polling>> after a fetch that produced no
\* record, had the catch block reported the failure.
NoRecordYetReportsError(cur) == <<"error", ProcessingFailed, FALSE>>

\* The dialog's <<status, error, polling>> after a fetch that produced no
\* record: resp.ok is false, or the catch block swallows the exception
\* ("Status file doesn't exist yet, keep polling").
NoRecordYet(cur) == cur

\* The rest of the interval callback, when its fetch settles: nothing when
\* there is no record, otherwise the step is shown and a complete or error
\* status ends the polling.
PollResponse(k) ==
    LET data == fetches[k] IN
        /\ k \in DOMAIN fetches
        /\ fetches' = Remove(fetches, k)
        /\ IF data = NoStatus
           THEN LET after == NoRecordYet(<<modalStatus, error, pollRef>>) IN
                    /\ modalStatus' = after[1]
                    /\ error' = after[2]
                    /\ pollRef' = after[3]
                    /\ UNCHANGED processingStep
           ELSE CASE data.status = "complete" ->
                       /\ pollRef' = FALSE
                       /\ processingStep' = "done"
                       /\ modalStatus' = "complete"
                       /\ UNCHANGED error
                  [] data.status = "error" ->
                       /\ pollRef' = FALSE
                       /\ processingStep' = data.step
                       /\ modalStatus' = "error"
                       /\ error' = ErrorOf(data)
                  [] OTHER ->
                       /\ processingStep' = data.step
                       /\ UNCHANGED <<modalStatus, error, pollRef>>
        /\ UNCHANGED <<pollCount, notModalVars>>

PollNext ==
    \/ PollTick
    \/ \E k \in 1..MaxInflight : PollResponse(k)
    \/ StartJob(PolledExecution, PolledId)
    \/ StepSucceeds(PolledExecution)
    \/ ValidationFails(PolledExecution)
    \/ StepFails(PolledExecution)

InitOfSpecPoll == CatOff /\ SearchOff /\ AppOff /\ PollInit /\ ReadOff /\ UploadOff /\ MapOff

SpecPoll == InitOfSpecPoll /\ [][PollNext]_vars

\* C13: as long as the dialog has seen no complete or error status, the
\* step it shows for the upload never moves back in the order of
\* PROCESSING_STEPS: each step read from status.json is the one shown
\* before or a later one.
C13_StepsNeverMoveBack ==
    [][(modalStatus = "processing" /\ modalStatus' = "processing")
          => StepIndex(processingStep') >= StepIndex(processingStep)]_vars

\* The time taken by the poll is bounded by the interval firing and the
\* fetches settling.
SpecPollFair ==
    /\ SpecPoll
    /\ WF_vars(PollTick)
    /\ WF_vars(\E k \in 1..MaxInflight : PollResponse(k))

\* C14: polling always stops. The counter never passes maxPolls + 1, a
\* fetch is started only for a count of at most maxPolls, and the tick that
\* finds the budget exceeded clears the interval and shows the timeout
\* message, which no status record carries, without touching the status
\* record or the pipeline's execution.
C14_PollingBounded ==
    /\ [](pollCount <= maxPolls + 1 /\ (pollRef => pollCount <= maxPolls))
    /\ [][/\ Len(fetches') > Len(fetches) => pollCount' <= maxPolls
          /\ pollCount' > maxPolls /\ pollCount <= maxPolls =>
                /\ ~pollRef'
                /\ modalStatus' = "error"
                /\ error' = TimeoutMessage
                /\ status' = status
                /\ invocations' = invocations
          /\ error' = TimeoutMessage => status'[PolledId].error # error']_vars
    /\ <>[](~pollRef)

\* The poll timed out after maxPolls fetches and the pipeline completed the
\* upload afterwards.
C14_Witness ==
    /\ pollCount = maxPolls + 1
    /\ ~pollRef
    /\ modalStatus = "error"
    /\ error = TimeoutMessage
    /\ status[PolledId].status = "complete"
    /\ invocations[PolledExecution].state = "Complete"

\* C15: while there is no status record for the upload and the poll budget
\* is not exhausted, the dialog stays in processing with no error and the
\* interval running; the dialog's status becomes error only by handling a
\* record whose status is error, or by the tick that exceeds the budget.
C15_NoRecordIsNotAnError ==
    [][/\ (status'[PolledId] = NoStatus /\ pollCount' <= maxPolls) =>
              /\ modalStatus' = "processing"
              /\ error' = ""
              /\ pollRef'
              /\ processingStep' = "null"
       /\ (modalStatus' = "error" /\ modalStatus # "error") =>
              \/ \E k \in DOMAIN fetches :
                    /\ fetches[k].status = "error"
                    /\ fetches' = Remove(fetches, k)
                    /\ error' = fetches[k].error
              \/ /\ pollCount' > maxPolls
                 /\ error' = TimeoutMessage]_vars

\* Several fetches found no record and were handled, the dialog is still
\* polling without an error, and no record exists yet.
C15_Witness ==
    /\ status[PolledId] = NoStatus
    /\ pollCount >= 3
    /\ fetches = <<>>
    /\ modalStatus = "processing"
    /\ error = ""
    /\ pollRef

\* The box spanned by the statistics of a row group.
StatsBox(group) ==
    [xmin |-> ColumnStats(group, "xmin").min, ymin |-> ColumnStats(group, "ymin").min,
     xmax |-> ColumnStats(group, "xmax").max, ymax |-> ColumnStats(group, "ymax").max]

\* C16: whatever the layout of the rows in row groups, a search with a query
\* rectangle reads the rows of a row group only if the box of the group's
\* (xmin, ymin, xmax, ymax) statistics overlaps the rectangle; a group whose
\* statistics do not intersect it is not fetched.
C16_PruningCorrect ==
    (searchPc = "returned" /\ searchArgs.bbox # <<>>) =>
        /\ fetched \subseteq rowGroups
        /\ \A g \in fetched :
              Overlaps(StatsBox(g), searchArgs.bbox[1], searchArgs.bbox[2],
                       searchArgs.bbox[3], searchArgs.bbox[4])

\* A search over a catalog of several row groups, one of them holding two
\* rows, read one group and skipped another.
C16_Witness ==
    /\ searchPc = "returned"
    /\ searchArgs.bbox = <<-10, -10, 10, 10>>
    /\ \E g \in fetched : Cardinality(g) = 2
    /\ \E g \in rowGroups : g \notin fetched
    /\ searchResult # <<>>

\* C17: the list a search returns is sorted by datetime descending, and of
\* two records with the same datetime the one with the smaller id comes
\* first.
C17_OrderedWithIdTieBreak ==
    searchPc = "returned" =>
        \A i, j \in DOMAIN searchResult :
            i < j =>
                /\ TimeLeq(searchResult[j].datetime, searchResult[i].datetime)
                /\ searchResult[i].datetime = searchResult[j].datetime
                      => searchResult[i].id < searchResult[j].id

\* The bbox argument is missing, or has west > east or south > north.
MalformedBbox(bbox) == bbox = <<>> \/ bbox[1] > bbox[3] \/ bbox[2] > bbox[4]

\* C18: a search called without a bbox, or with a bbox where west > east or
\* south > north, fails with a QueryError: it does not return, and no
\* records come back.
C18_MalformedBboxRejected ==
    MalformedBbox(searchArgs.bbox) => (searchPc # "returned" /\ searchResult = <<>>)

Lowered(str) == [i \in DOMAIN str |-> LowerChar(str[i])]

Contains(str, sub) ==
    \E from \in 1..(Len(str) - Len(sub) + 1) :
        \A k \in 1..Len(sub) : str[from + k - 1] = sub[k]

\* C19 as stated: with a platform or license filter, every returned record
\* has that attribute equal to the filter value, compared without regard to
\* case.
C19_ExactCategoricalMatch ==
    searchPc = "returned" =>
        \A n \in DOMAIN searchResult :
            /\ searchArgs.platform # <<>> =>
                  Lowered(searchResult[n].platform_type) = Lowered(searchArgs.platform)
            /\ searchArgs.license # <<>> =>
                  Lowered(searchResult[n].license) = Lowered(searchArgs.license)

\* C19 amended: with a platform filter, every returned record has a
\* platform_type equal to the filter value without regard to case, or the
\* filter value is exactly 'uav' and the platform_type is 'drone' in any
\* case; with a license filter, every returned record has a license that
\* contains the filter value, without regard to case.
C19_CategoricalMatch ==
    searchPc = "returned" =>
        \A n \in DOMAIN searchResult :
            /\ searchArgs.platform # <<>> =>
                  \/ Lowered(searchResult[n].platform_type) = Lowered(searchArgs.platform)
                  \/ /\ searchArgs.platform = <<"u", "a", "v">>
                     /\ Lowered(searchResult[n].platform_type) = <<"d", "r", "o", "n", "e">>
            /\ searchArgs.license # <<>> =>
                  Contains(Lowered(searchResult[n].license), Lowered(searchArgs.license))

\* A search for platform 'uav' and license 'CC-BY' returned the record
\* whose platform_type is 'Drone' and whose license is 'CC-BY-SA'.
C19_Witness ==
    /\ searchPc = "returned"
    /\ searchArgs.platform = <<"u", "a", "v">>
    /\ searchArgs.license = <<"C", "C", "-", "B", "Y">>
    /\ \E n \in DOMAIN searchResult :
          /\ searchResult[n].platform_type = <<"D", "r", "o", "n", "e">>
          /\ searchResult[n].license = <<"C", "C", "-", "B", "Y", "-", "S", "A">>

(***************************************************************************)
(* Queries reading catalog.parquet by HTTP range requests while the        *)
(* rebuild job replaces it                                                 *)
(***************************************************************************)

NumReaders == 1

Readers == 1..NumReaders

IdleReader == [pc |-> "idle", footer |-> {}, left |-> {}, got |-> {}]

ReadInit ==
    /\ CompInit
    /\ readers = [k \in Readers |-> IdleReader]

\* A query starts on read_parquet(CATALOG_URL): it reads the footer of the
\* file now at the URL, which lists the row groups it will fetch (one row
\* per row group here).
ReadFooter(k) ==
    /\ readers[k].pc = "idle"
    /\ readers' = [readers EXCEPT ![k] =
                     [pc |-> "reading", footer |-> snapshot, left |-> snapshot, got |-> {}]]
    /\ UNCHANGED <<compVars, notReadVars>>

\* What a range request for row group g of the file whose footer was read
\* returns: the row group, while that file is still the one at the URL;
\* bytes of the file that replaced it otherwise.
RangeRead(footer, g) == IF snapshot = footer THEN {g} ELSE snapshot

\* The query fetches one of the row groups its footer lists, from the URL.
FetchRowGroup(k, g) ==
    /\ readers[k].pc = "reading"
    /\ g \in readers[k].left
    /\ \E rows \in SUBSET RangeRead(readers[k].footer, g) :
          /\ rows # {} \/ RangeRead(readers[k].footer, g) = {}
          /\ Cardinality(rows) <= 1
          /\ readers' = [readers EXCEPT ![k].left = readers[k].left \ {g},
                                        ![k].got = readers[k].got \cup rows]
    /\ UNCHANGED <<compVars, notReadVars>>

\* The query has fetched every row group it planned and returns.
ReadDone(k) ==
    /\ readers[k].pc = "reading"
    /\ readers[k].left = {}
    /\ readers' = [readers EXCEPT ![k].pc = "done"]
    /\ UNCHANGED <<compVars, notReadVars>>

ReadNext ==
    \/ \E rec \in SidecarRecords : RegisterSidecar(rec)
    \/ \E r \in Runs :
          \/ Trigger(r)
          \/ Read(r)
          \/ Merge(r)
          \/ Write(r)
          \/ Publish(r)
          \/ \E p \in SidecarRecords : DeleteSidecar(r, p)
          \/ DeleteDone(r)
          \/ Fail(r)
    \/ \E k \in Readers :
          \/ ReadFooter(k)
          \/ \E g \in SidecarRecords : FetchRowGroup(k, g)
          \/ ReadDone(k)

InitOfSpecRead == CatOff /\ SearchOff /\ AppOff /\ ReadInit /\ PipeOff /\ ModalOff /\ UploadOff /\ MapOff

SpecRead == InitOfSpecRead /\ [][ReadNext]_vars

\* C20: a published snapshot is never mutated under a reader. A query that
\* started on snapshot v gets rows of v only, and exactly v's rows when it
\* returns, even if a rebuild publishes a newer snapshot meanwhile; and what
\* a query gets in a step comes from the published file, never from the
\* unpublished output of a run.
C20_ReadersSeeOneSnapshot ==
    /\ [](\A k \in Readers :
            /\ readers[k].got \subseteq readers[k].footer
            /\ readers[k].pc = "done" => readers[k].got = readers[k].footer)
    /\ [][\A k \in Readers :
            \A row \in readers'[k].got \ readers[k].got : row \in snapshot]_vars

(***************************************************************************)
(* The rebuild schedule keeps firing and runs get through their steps      *)
(***************************************************************************)

\* Runs never overlap (a trigger that finds a run active is skipped), so the
\* schedule's successive runs are followed in one slot, triggered again each
\* time it is idle.
ScheduledRuns == {1}

CompFairNext ==
    \/ \E rec \in SidecarRecords : RegisterSidecar(rec)
    \/ \E r \in ScheduledRuns :
          \/ Trigger(r)
          \/ Read(r)
          \/ Merge(r)
          \/ Write(r)
          \/ Publish(r)
          \/ \E p \in SidecarRecords : DeleteSidecar(r, p)
          \/ DeleteDone(r)
          \/ Fail(r)

\* The hourly trigger keeps firing, and although a run can fail at any step,
\* a step that can be taken again and again is taken in the end.
SpecCompactFair ==
    /\ InitOfSpecCompact
    /\ [][CompFairNext]_vars
    /\ SF_vars(\E r \in ScheduledRuns : Trigger(r))
    /\ SF_vars(\E r \in ScheduledRuns : Read(r))
    /\ SF_vars(\E r \in ScheduledRuns : Merge(r))
    /\ SF_vars(\E r \in ScheduledRuns : Write(r))
    /\ SF_vars(\E r \in ScheduledRuns : Publish(r))
    /\ SF_vars(\E r \in ScheduledRuns, p \in SidecarRecords : DeleteSidecar(r, p))
    /\ SF_vars(\E r \in ScheduledRuns : DeleteDone(r))

\* The snapshot holds the record of sidecar p, or a later one for the same id.
InSnapshot(p, rows) == \E row \in rows : row.id = p.id /\ row.uploaded_at >= p.uploaded_at

\* Sidecar p has been replaced at its id-keyed path by a later registration
\* of the same id.
Replaced(p) == \E q \in pending : q.id = p.id /\ q # p

\* C21: a run that publishes puts every sidecar present at its read point
\* in the snapshot (the record itself, or a later one for the same id), and
\* every registered sidecar, whether a run read it or it was created after a
\* run's read point, is in a published snapshot in the end, unless the same
\* id is registered again first, and then the sidecar that replaced it is.
C21_EventuallyPublished ==
    /\ [][\A r \in Runs :
            (~runs[r].published /\ runs'[r].published) =>
                \A p \in runs[r].side : InSnapshot(p, snapshot')]_vars
    /\ \A p \in SidecarRecords :
          (p \in pending) ~> (InSnapshot(p, snapshot) \/ Replaced(p))

\* A sidecar created after a run's read point is in the next run's snapshot:
\* the run that has just published read the snapshot of an earlier run,
\* which held record 1 only, and the sidecar of record 2, and the published
\* snapshot holds both.
C21_Witness ==
    \E r \in ScheduledRuns :
        /\ runs[r].published
        /\ runs[r].prev = {[id |-> 1, uploaded_at |-> 1]}
        /\ runs[r].side = {[id |-> 2, uploaded_at |-> 1]}
        /\ snapshot = {[id |-> 1, uploaded_at |-> 1], [id |-> 2, uploaded_at |-> 1]}

(***************************************************************************)
(* UploadModal.jsx: handleUpload, handleClose / resetForm, the "Try again" *)
(* button and pollStatus, over successive uploads                          *)
(***************************************************************************)

MaxUploads == 3

MaxTicks == 2

\* The uploads of the session, numbered in the order the user starts them;
\* upload i gets upload_id i from the presign endpoint.
Uploads == 1..MaxUploads

notUploadVars ==
    <<catVars, searchVars, appVars, compVars, readVars, mapVars, input, invocations, status,
      assets, pollCount, pollRef, fetches>>

\* `Auth failed (${authResp.status})` and `Upload failed (${xhr.status})`
AuthFailed == "Auth failed"

UploadFailed == "Upload failed"

\* The dialog as mounted: status idle, no upload started, pollRef.current
\* null; the pipeline has nothing to process yet.
UploadInit ==
    /\ modalStatus = "idle"
    /\ processingStep = "null"
    /\ error = ""
    /\ pollCount = 0
    /\ pollRef = FALSE
    /\ fetches = <<>>
    /\ handlers = [i \in Uploads |-> "none"]
    /\ intervals = {}
    /\ pollTimer = 0
    /\ pollCounts = [i \in Uploads |-> 0]
    /\ statusFetches = <<>>
    /\ completions = [i \in Uploads |-> 0]
    /\ \E d \in {"none", "missing CRS"} :
          input = [j \in Ids |-> [defect |-> IF j = PolledId THEN d ELSE "none",
                                  uploaded_at |-> 1]]
    /\ invocations = [i \in Invocations |-> IdleInvocation]
    /\ status = [j \in Ids |-> NoStatus]
    /\ assets = {}
    /\ CompInit

\* clearInterval(pollRef.current): the interval the ref holds is cleared,
\* if it is still set.
ClearInterval == intervals \ {pollTimer}

\* The Upload button (enabled when canSubmit: a file, a title, an API key
\* and status idle): handleUpload up to its first await.
HandleUpload(i) ==
    /\ modalStatus = "idle"
    /\ handlers[i] = "none"
    /\ \A j \in Uploads : j < i => handlers[j] # "none"
    /\ error' = ""
    /\ modalStatus' = "requesting"
    /\ handlers' = [handlers EXCEPT ![i] = "presign"]
    /\ UNCHANGED <<processingStep, intervals, pollTimer, pollCounts, statusFetches,
                   completions, notUploadVars>>

\* The presign request answers ok: setUploadId, setStatus('uploading'), and
\* the PUT is sent.
PresignSucceeds(i) ==
    /\ handlers[i] = "presign"
    /\ modalStatus' = "uploading"
    /\ handlers' = [handlers EXCEPT ![i] = "put"]
    /\ UNCHANGED <<processingStep, error, intervals, pollTimer, pollCounts, statusFetches,
                   completions, notUploadVars>>

\* The catch block of handleUpload: setStatus('error'); setError(err.message)
HandleUploadFails(i, message) ==
    /\ modalStatus' = "error"
    /\ error' = message
    /\ handlers' = [handlers EXCEPT ![i] = "failed"]
    /\ UNCHANGED <<processingStep, intervals, pollTimer, pollCounts, statusFetches,
                   completions, notUploadVars>>

\* The presign request fails or answers not ok.
PresignFails(i) ==
    /\ handlers[i] = "presign"
    /\ HandleUploadFails(i, AuthFailed)

\* The PUT answers 2xx: setStatus('processing'), setProcessingStep(null) and
\* pollStatus(upload_id), which sets a new interval and stores it in pollRef.
PutSucceeds(i) ==
    /\ handlers[i] = "put"
    /\ modalStatus' = "processing"
    /\ processingStep' = "null"
    /\ handlers' = [handlers EXCEPT ![i] = "polling"]
    /\ intervals' = intervals \cup {i}
    /\ pollTimer' = i
    /\ pollCounts' = [pollCounts EXCEPT ![i] = 0]
    /\ UNCHANGED <<error, statusFetches, completions, notUploadVars>>

\* The PUT answers another status or the request fails.
PutFails(i) ==
    /\ handlers[i] = "put"
    /\ HandleUploadFails(i, UploadFailed)

\* handleClose (Close, Cancel, Done, the backdrop): nothing while requesting
\* or uploading; otherwise resetForm and onClose.  The status fetches under
\* way go on; they are marked as started before the reset.
HandleClose ==
    /\ modalStatus \notin {"uploading", "requesting"}
    /\ modalStatus' = "idle"
    /\ processingStep' = "null"
    /\ error' = ""
    /\ intervals' = ClearInterval
    /\ statusFetches' = [k \in DOMAIN statusFetches |->
                            [statusFetches[k] EXCEPT !.reset = TRUE]]
    /\ UNCHANGED <<handlers, pollTimer, pollCounts, completions, notUploadVars>>

\* The "Try again" button, shown with the error message when status is error.
TryAgain ==
    /\ modalStatus = "error"
    /\ error # ""
    /\ modalStatus' = "idle"
    /\ error' = ""
    /\ processingStep' = "null"
    /\ UNCHANGED <<handlers, intervals, pollTimer, pollCounts, statusFetches, completions,
                   notUploadVars>>

\* What a fetch of uploads/{i}/status.json can produce.  The pipeline
\* execution followed is the one of the first upload's file.
StatusOf(i) == IF i = PolledId THEN FetchStatus(PolledId) ELSE {NoStatus}

\* The interval callback of pollStatus(i) up to its first await.
UploadPollTick(i) ==
    /\ i \in intervals
    /\ pollCounts[i] < MaxTicks
    /\ pollCounts' = [pollCounts EXCEPT ![i] = pollCounts[i] + 1]
    /\ IF BudgetExceeded(pollCounts[i] + 1)
       THEN /\ intervals' = ClearInterval
            /\ modalStatus' = "error"
            /\ error' = TimeoutMessage
            /\ UNCHANGED <<processingStep, statusFetches>>
       ELSE /\ Len(statusFetches) < MaxInflight
            /\ \E data \in StatusOf(i) :
                  statusFetches' = Append(statusFetches,
                                          [upload |-> i, data |-> data, reset |-> FALSE])
            /\ UNCHANGED <<modalStatus, processingStep, error, intervals>>
    /\ UNCHANGED <<handlers, pollTimer, completions, notUploadVars>>

\* The rest of the interval callback, when its fetch settles.
UploadPollResponse(k) ==
    /\ k \in DOMAIN statusFetches
    /\ LET data == statusFetches[k].data
           i == statusFetches[k].upload
       IN  /\ statusFetches' = Remove(statusFetches, k)
           /\ IF data = NoStatus
              THEN UNCHANGED <<modalStatus, processingStep, error, intervals, completions>>
              ELSE CASE data.status = "complete" ->
                          /\ intervals' = ClearInterval
                          /\ processingStep' = "done"
                          /\ modalStatus' = "complete"
                          /\ completions' = [completions EXCEPT ![i] = completions[i] + 1]
                          /\ UNCHANGED error
                     [] data.status = "error" ->
                          /\ intervals' = ClearInterval
                          /\ processingStep' = data.step
                          /\ modalStatus' = "error"
                          /\ error' = ErrorOf(data)
                          /\ UNCHANGED completions
                     [] OTHER ->
                          /\ processingStep' = data.step
                          /\ UNCHANGED <<modalStatus, error, intervals, completions>>
    /\ UNCHANGED <<handlers, pollTimer, pollCounts, notUploadVars>>

\* The object-created event of the first upload's file starts the pipeline.
ProcessingStarts ==
    /\ handlers[PolledId] = "polling"
    /\ StartJob(PolledExecution, PolledId)

UploadNext ==
    \/ \E i \in Uploads : HandleUpload(i)
    \/ \E i \in Uploads : PresignSucceeds(i)
    \/ \E i \in Uploads : PresignFails(i)
    \/ \E i \in Uploads : PutSucceeds(i)
    \/ \E i \in Uploads : PutFails(i)
    \/ HandleClose
    \/ TryAgain
    \/ \E i \in Uploads : UploadPollTick(i)
    \/ \E k \in 1..MaxInflight : UploadPollResponse(k)
    \/ ProcessingStarts
    \/ StepSucceeds(PolledExecution)
    \/ ValidationFails(PolledExecution)
    \/ StepFails(PolledExecution)

InitOfSpecUpload == CatOff /\ SearchOff /\ AppOff /\ UploadInit /\ ReadOff /\ MapOff

SpecUpload == InitOfSpecUpload /\ [][UploadNext]_vars

\* C24: for one upload, onUploadComplete is called at most once, also when
\* status fetches of successive ticks overlap and more than one of them
\* returns status complete.
C24_CompleteAtMostOnce == \A i \in Uploads : completions[i] <= 1

\* C25: the response of a status fetch that was under way when the form was
\* reset changes none of status, error and processingStep and calls
\* onUploadComplete for no upload.
C25_ResetStopsResponses ==
    [][\A k \in DOMAIN statusFetches :
          (statusFetches[k].reset /\ UploadPollResponse(k)) =>
              UNCHANGED <<modalStatus, error, processingStep, completions>>]_vars

\* A handleUpload call is between its first await and its end.
UploadUnderWay == \E i \in Uploads : handlers[i] \in {"presign", "put"}

\* The status changes of handleUpload: its three steps in order, and the
\* catch block after a failed request.
HandleUploadMoves ==
    { <<"idle", "requesting">>, <<"requesting", "uploading">>, <<"uploading", "processing">>,
      <<"requesting", "error">>, <<"uploading", "error">> }

\* C30: from the click to the end of handleUpload the status moves only
\* idle, requesting, uploading, processing in that order, or to error when a
\* request fails; an interval is set only by a call whose presign request
\* and PUT both succeeded; at most one interval is set at a time; and a
\* failed request leaves status error with a message and sets no interval.
C30_HandleUploadSequence ==
    /\ [][(modalStatus' # modalStatus /\ (UploadUnderWay \/ UploadUnderWay')) =>
             <<modalStatus, modalStatus'>> \in HandleUploadMoves]_vars
    /\ [][\A i \in Uploads :
             (i \in intervals' /\ i \notin intervals) =>
                 handlers[i] = "put" /\ handlers'[i] = "polling"]_vars
    /\ [](Cardinality(intervals) <= 1)
    /\ [][\A i \in Uploads :
             (handlers[i] # "failed" /\ handlers'[i] = "failed") =>
                 modalStatus' = "error" /\ error' # "" /\ intervals' = intervals]_vars

(***************************************************************************)
(* Map.jsx: movestart / moveend, the debounced onSearchArea call and the   *)
(* effects that move the map with fitBounds                                *)
(***************************************************************************)

MaxMoves == 3

NumViews == 3

\* The views the map can show, the target of a move being one of them.
Views == 1..NumViews

notMapVars ==
    <<catVars, searchVars, appVars, compVars, pipeVars, modalVars, readVars, uploadVars>>

\* The map has loaded: the load handler has called onSearchArea with the
\* initial bounds.
MapInit ==
    /\ isProgrammaticMove = FALSE
    /\ debounceTimer = FALSE
    /\ moving = "none"
    /\ mapView = 1
    /\ nMoves = 0
    /\ searchAreas = <<1>>

\* The movestart handler: if (debounceTimer.current) clearTimeout(...)
MoveStart(who) ==
    /\ moving' = who
    /\ debounceTimer' = FALSE
    /\ nMoves' = nMoves + 1

\* The user drags or zooms the map.
UserMoveStarts ==
    /\ moving = "none"
    /\ nMoves < MaxMoves
    /\ MoveStart("user")
    /\ UNCHANGED <<isProgrammaticMove, mapView, searchAreas, notMapVars>>

\* The search effect or the selection effect: the flag is set, then bbox()
\* and fitBounds run inside try { } catch(e) {}.  Either the map starts to
\* move, or one of the calls throws and the catch swallows it.
FitBounds(outcome) ==
    /\ moving = "none"
    /\ nMoves < MaxMoves
    /\ isProgrammaticMove' = TRUE
    /\ IF outcome = "moves"
       THEN MoveStart("programmatic")
       ELSE UNCHANGED <<moving, debounceTimer, nMoves>>
    /\ UNCHANGED <<mapView, searchAreas, notMapVars>>

\* The moveend handler: a move made while the flag is set resets the flag
\* and returns; any other starts the 300 ms timer.
MoveEnd(v) ==
    /\ moving \in {"user", "programmatic"}
    /\ moving' = "none"
    /\ mapView' = v
    /\ IF isProgrammaticMove
       THEN /\ isProgrammaticMove' = FALSE
            /\ UNCHANGED debounceTimer
       ELSE /\ debounceTimer' = TRUE
            /\ UNCHANGED isProgrammaticMove
    /\ UNCHANGED <<nMoves, searchAreas, notMapVars>>

\* The timer fires: onSearchArea is called with the map's current bounds.
MapDebounceFires ==
    /\ debounceTimer
    /\ debounceTimer' = FALSE
    /\ searchAreas' = Append(searchAreas, mapView)
    /\ UNCHANGED <<isProgrammaticMove, moving, mapView, nMoves, notMapVars>>

MapNext ==
    \/ UserMoveStarts
    \/ \E outcome \in {"moves", "throws"} : FitBounds(outcome)
    \/ \E v \in Views : MoveEnd(v)
    \/ MapDebounceFires

InitOfSpecMap ==
    CatOff /\ SearchOff /\ AppOff /\ CompOff /\ PipeOff /\ ModalOff /\ ReadOff /\ UploadOff
    /\ MapInit

SpecMap == InitOfSpecMap /\ [][MapNext]_vars

\* C27: the moveend of a user move is never suppressed by the
\* isProgrammaticMove flag: it starts the 300 ms timer, and the timer, unless
\* another move starts first and clears it, calls onSearchArea once with
\* the map's current bounds.
C27_UserMoveIsSearched ==
    /\ [][(moving = "user" /\ moving' = "none") => debounceTimer']_vars
    /\ [][(debounceTimer /\ ~debounceTimer' /\ moving' = moving) =>
             searchAreas' = Append(searchAreas, mapView)]_vars

====
